---- MODULE Spec2Model ----
(***************************************************************************)
(* exasyncio: one Connection object (src/exasyncio/connection.py) shared   *)
(* by cooperative asyncio tasks, the aiohttp websocket it owns and the     *)
(* Exasol server at the other end of the websocket.                        *)
(*                                                                         *)
(* A step of the model is what one task runs between two suspension        *)
(* points (an await that really suspends): the websocket connect, waiting  *)
(* for _req_lock, waiting for a frame, websocket.close(), session.close(). *)
(* Sending a frame is taken not to suspend.  The server answers the        *)
(* requests of a websocket in the order it got them, with a frame of its   *)
(* choice.  websocket.close() and session.close() do not raise (aiohttp    *)
(* reports their failures as a return value).                              *)
(*                                                                         *)
(* Spec lets the tasks interleave freely; SpecSeq runs one operation at a  *)
(* time and lets the server answer with every kind of frame.  SpecRes adds *)
(* the Result that execute() returns (src/exasyncio/result.py): its row    *)
(* producer, the async generator _aiterate, runs inside the task that      *)
(* iterates, and the server answers each request with a frame that fits    *)
(* the command.  SpecConv gives the executed query a table of one DATE or  *)
(* HASHTYPE column, which the Result yields inline or page by page through *)
(* the converter of the column (src/exasyncio/resultset.py, the Result     *)
(* that connection.py imports), with responses that carry a date format.   *)
(* SpecAttr lets every response carry session attributes.  SpecSteps is    *)
(* SpecSeq of one task, _connect and _login also called by themselves.     *)
(* SpecClose opens the Connection while nothing else runs and lets both    *)
(* tasks call close() and execute() at any time; SpecAbort adds the        *)
(* cancellation of a task that is suspended inside _request.               *)
(***************************************************************************)
EXTENDS Integers, Sequences, FiniteSets, TLC

\* the tasks sharing the Connection
Tasks == {"t1", "t2"}

\* how many times _connect may open a transport in one behaviour
MaxConnects == 2

\* how many commands the wire log of one websocket keeps
MaxLog == 4

\* how many requests a websocket carries at most when the task waiting for
\* the answer is cancelled
MaxStale == 1

\* Python's None for the _ws and _session handles; handles are 1..MaxConnects
None == 0

Handles == 1..MaxConnects

\* how many rows a result set declares at most
MaxRows == 3

\* how many rows one fetch page carries at most
MaxPage == 2

\* how many fetch requests one Result may send
MaxFetches == 4

\* how many Results execute() may construct in one behaviour
MaxResults == 1

\* resultSetHandle values; None is no handle
ResultHandles == 1..MaxResults

\* Python's None where a number of rows, or a row, may stand
NoRows == -1

VARIABLES
    status,           \* Connection.status
    ws,               \* Connection._ws: None or the websocket's handle
    session,          \* Connection._session: None or the ClientSession's handle
    send_msg,         \* Connection._send_msg: "plain" or "compressed"
    recv_msg,         \* Connection._recv_msg: "plain" or "compressed"
    use_compression,  \* Connection._use_compression (constructor argument)
    date_format,      \* Connection.date_format
    datetime_format,  \* Connection.datetime_format
    tz,               \* Connection._tz: NoZone for None, else the name of the ZoneInfo
    autocommit,       \* Connection._autocommit
    req_lock,         \* Connection._req_lock: [locked, waiters]
    pc,               \* per task: where it is suspended
    op,               \* per task: the public operation it is running
    cmd,              \* per task: the command of the _request it is in
    err,              \* per task: the exception __await__ caught and will re-raise
    loc,              \* per task: the handle its pending await holds
    rmode,            \* per task: the _recv_msg variant its pending receive runs
    swallowed,        \* per task: close() swallowed a failure of disconnect
    reopened,         \* per task: a _connect assigned handles while it is in close()
    snap,             \* per task: the Connection fields when its await was refused
    wsOpen,           \* websockets connected and not yet closed
    sessOpen,         \* ClientSessions created and not yet closed
    pending,          \* per websocket: requests sent, not yet answered
    wlog,             \* per websocket: the first MaxLog commands sent on it
    nconn,            \* transports opened so far
    lastRecv,         \* the frame _recv handled in the last step, and what it raised
    lastRet,          \* the operation that returned to its caller in the last step
    result_type,      \* Result.result_type; "none" while there is no Result
    data,             \* Result._data: NoRows for None, else the rows it holds
    result_handle,    \* Result._result_handle
    rowcount,         \* Result.rowcount
    aiterator,        \* Result._aiterator: "None", or the state of the generator
    gen,              \* the locals of the generator _aiterate
    got,              \* the rows the running fetchall() has collected
    alive,            \* the caller holds a reference to the Result
    loop_closed,      \* Connection._loop.is_closed()
    aclose_running,   \* the interpreter: aclose() of a running generator raises
    arg,              \* per task: the handle its _close_result was called with
    nres,             \* Results constructed so far
    nsent,            \* per task: requests of the Result sent by its operation
    entry,            \* per task: status, handle and generator when its operation was called
    fetches,          \* fetch requests sent for the Result
    yields,           \* rows the generator yielded
    rowsOut,          \* the rows the generator yielded, by their position
    conform,          \* the page sizes K all fetch pages so far conform to
    closes,           \* per handle: closeResultSet requests sent
    stayed,           \* per handle: the status has been CONNECTED since its Result was made
    fate,             \* per handle: "open", "consumed", "closed" or "finalized"
    closedOnce,       \* a call of Result.close() has ended
    raw,              \* per task: the argument raw of its execute()
    columns,          \* Result.columns: the dataType of the column
    result_converter, \* what the Result keeps of the session to convert its rows with
    cells,            \* the strings of Result._data, one per row
    out,              \* the row tuples the generator yielded, in order
    table,            \* the server: the rows the executed query selects
    column,           \* the server: the dataType of the column of these rows
    trail,            \* the status before the last step and each status the step assigned
    closings          \* per handle: disconnect requests sent, calls of websocket.close(), of session.close()

vars == <<status, ws, session, send_msg, recv_msg, use_compression, date_format,
          datetime_format, tz, autocommit, req_lock, pc, op, cmd, err, loc, rmode, swallowed, reopened, snap,
          wsOpen, sessOpen, pending, wlog, nconn, lastRecv, lastRet,
          result_type, data, result_handle, rowcount, aiterator, gen, got, alive,
          loop_closed, aclose_running, arg, nres, nsent, entry, fetches, yields,
          rowsOut, conform, closes, stayed, fate, closedOnce, raw, columns,
          result_converter, cells, out, table, column, trail, closings>>

----------------------------------------------------------------------------
\* Exceptions

NoExc == [kind |-> "none", code |-> "", text |-> ""]

Exc(k) == [kind |-> k, code |-> "", text |-> ""]

ExaProtocolError == Exc("ExaProtocolError")

ExaServerError(sql_code, text) == [kind |-> "ExaServerError", code |-> sql_code, text |-> text]

----------------------------------------------------------------------------
\* Frames the server may send

\* the exception member of a response: missing, not an object, or an object
\* whose sqlCode and text are each present or missing ("" is missing)
ExcAbsent == [kind |-> "absent", sqlCode |-> "", text |-> ""]

ExcMembers ==
    {ExcAbsent, [kind |-> "nonobject", sqlCode |-> "", text |-> ""]}
    \cup {[kind |-> "object", sqlCode |-> c, text |-> x] :
              c \in {"", "08004"}, x \in {"", "Connection exception"}}

\* a name of a time zone is the sequence of its characters; NoZone stands
\* for None and for a timezone member that is missing
NoZone == <<>>

\* a column's dataType: its type name and, for HASHTYPE, its size in hex
\* characters (32 for 16 bytes); NoColumn where the columns member is missing
NoColumn == [type |-> "absent", size |-> 0]

\* a well-framed JSON object without members
EmptyObject ==
    [frame |-> "data", body |-> "object", status |-> "absent", attrs |-> "absent",
     exc |-> ExcAbsent, key |-> FALSE,
     rtype |-> "absent", rdata |-> NoRows, rhandle |-> FALSE, numRows |-> 0,
     dateFormat |-> "absent", datetimeFormat |-> "absent", timezone |-> NoZone,
     autocommit |-> "absent", col |-> NoColumn, rvals |-> <<>>]

\* frame: "data" (a payload the framing can read), "bad_deflate" (a binary
\*   payload that is no zlib stream), "nodata" (a CLOSE/CLOSED/ERROR message,
\*   whose data is None)
\* body: "notjson", "nonobject" (JSON, but an array, string, number or null),
\*   "object"
\* status: "absent", "ok", "error", "other"
\* attrs: "absent", "nonobject", "object"
\* key: responseData.publicKeyPem is present and loads as a public key
\* rtype: what responseData describes: "absent" (nothing of a result),
\*   "rowCount" or "resultSet" (results[0].resultType), "page" (a fetch page)
\* rdata: the rows in the data member of the result set or page, NoRows when
\*   there is no data member
\* rhandle: the result set has a resultSetHandle
\* numRows: the numRows member of the result set or page
\* col: the dataType of the column of the result set (the model's result
\*   sets have one column)
\* rvals: the strings in the data member, one per row; rdata is their number
\* dateFormat, datetimeFormat, timezone, autocommit: the members of the
\*   attributes object, "absent" or NoZone when it has none of that name
Responses ==
    {[EmptyObject EXCEPT !.frame = "nodata", !.body = "notjson"],
     [EmptyObject EXCEPT !.frame = "bad_deflate", !.body = "notjson"],
     [EmptyObject EXCEPT !.body = "notjson"],
     [EmptyObject EXCEPT !.body = "nonobject"]}
    \cup {[EmptyObject EXCEPT !.status = st, !.attrs = at] :
              st \in {"absent", "other"}, at \in {"absent", "nonobject", "object"}}
    \cup {[EmptyObject EXCEPT !.status = "ok", !.attrs = at, !.key = k] :
              at \in {"absent", "nonobject", "object"}, k \in BOOLEAN}
    \cup {[EmptyObject EXCEPT !.status = "error", !.attrs = at, !.exc = e] :
              at \in {"absent", "nonobject", "object"}, e \in ExcMembers}

\* the message aiohttp hands to a receive() on a websocket that was closed
ClosedFrame == [EmptyObject EXCEPT !.frame = "nodata", !.body = "notjson"]

----------------------------------------------------------------------------
\* Receiving: Connection._recv_msg_uncompressed, _recv_msg_compressed, _recv

Raised(e) == [raised |-> e, data |-> FALSE]

Returned == [raised |-> NoExc, data |-> TRUE]

\* msg.data of the frame; None for a message that carries no payload
RecvMsgUncompressed(r) == Returned

\* zlib.decompress(data).decode(): None is no bytes-like object, and a
\* payload that is no zlib stream raises zlib.error
RecvMsgCompressed(r) ==
    IF r.frame = "nodata" THEN Raised(Exc("TypeError"))
    ELSE IF r.frame = "bad_deflate" THEN Raised(Exc("zlib.error"))
    ELSE RecvMsgUncompressed(r)

RecvMsg(r, mode) ==
    IF mode = "compressed" THEN RecvMsgCompressed(r) ELSE RecvMsgUncompressed(r)

\* json.loads(data) raises: data is None, or bytes/text that is no JSON
JsonFails(r) == r.frame # "data" \/ r.body = "notjson"

\* lines 142-150: the "error" branch
RecvError(r) ==
    IF r.exc.kind = "absent" THEN Raised(ExaProtocolError)           \* KeyError, caught
    ELSE IF r.exc.kind = "nonobject" THEN Raised(Exc("TypeError"))   \* not subscriptable by str
    ELSE IF r.exc.sqlCode = "" \/ r.exc.text = "" THEN Raised(ExaProtocolError)
    ELSE Raised(ExaServerError(r.exc.sqlCode, r.exc.text))

\* lines 135-151: the status member decides
RecvStatus(r) ==
    IF r.status = "absent" THEN Raised(ExaProtocolError)
    ELSE IF r.status = "ok" THEN Returned
    ELSE IF r.status = "error" THEN RecvError(r)
    ELSE Raised(ExaProtocolError)

\* lines 122-134: data.get("attributes") needs data to be a dict, and
\* attrs.get(...) needs attrs to be a dict
RecvAttrs(r) ==
    IF r.body = "nonobject" THEN Raised(Exc("AttributeError"))
    ELSE IF r.attrs = "nonobject" THEN Raised(Exc("AttributeError"))
    ELSE RecvStatus(r)

\* Connection._recv: what it returns or raises for frame r under the
\* receive variant mode
RecvResult(r, mode) ==
    IF RecvMsg(r, mode).raised # NoExc THEN RecvMsg(r, mode)
    ELSE IF JsonFails(r) THEN Raised(ExaProtocolError)
    ELSE RecvAttrs(r)

\* _recv reached line 123 with an attributes object
AttrsHandled(r, mode) ==
    /\ RecvMsg(r, mode).raised = NoExc
    /\ ~JsonFails(r)
    /\ r.body = "object"
    /\ r.attrs = "object"

\* the characters the names of time zones are written in
Lower == <<"a", "l", "r", "s", "u">>

Capital == <<"A", "L", "R", "S", "U">>

\* str.upper() of one character
UpperChar(c) ==
    IF \E i \in 1..Len(Lower) : Lower[i] = c
    THEN Capital[CHOOSE i \in 1..Len(Lower) : Lower[i] = c]
    ELSE c

\* str.upper()
Upper(name) == [i \in 1..Len(name) |-> UpperChar(name[i])]

\* zoneinfo.available_timezones(): the canonical names
AvailableTimezones == {<<"U", "T", "C">>, <<"Z", "u", "l", "u">>}

\* _upper_zones.get(key), line 25: the canonical name filed under key, and
\* NoZone when the dict has no such key
UpperZonesGet(key) ==
    IF \E z \in AvailableTimezones : Upper(z) = key
    THEN CHOOSE z \in AvailableTimezones : Upper(z) = key
    ELSE NoZone

\* the zone whose name equals tz_name when the case of the letters is
\* ignored, NoZone when there is none
ResolveZoneUpper(tz_name) == UpperZonesGet(Upper(tz_name))

\* _recv, lines 129-133: the name is looked up as the server wrote it
ResolveZone(tz_name) == UpperZonesGet(tz_name)

\* _recv, lines 122-134: the members of an attributes object replace the
\* attributes of the Connection
RecvAttributes(s, r, mode) ==
    IF ~AttrsHandled(r, mode) THEN s
    ELSE [s EXCEPT !.date_format = IF r.dateFormat # "absent" THEN r.dateFormat ELSE @,
                   !.datetime_format = IF r.datetimeFormat # "absent" THEN r.datetimeFormat ELSE @,
                   !.tz = IF r.timezone # NoZone THEN ResolveZone(r.timezone) ELSE @,
                   !.autocommit = IF r.autocommit # "absent" THEN r.autocommit = "true" ELSE @]

----------------------------------------------------------------------------
\* The state as one record, so that a step can run a chain of calls

NoSnap == [status |-> "none", ws |-> None, session |-> None, send_msg |-> "none", recv_msg |-> "none"]

NoRecv == [task |-> "none", cmd |-> "none", re |-> "none", resp |-> EmptyObject, mode |-> "none", raised |-> NoExc]

\* what a task notes when it calls an operation of the Result
NoEntry == [status |-> "none", handle |-> None, aiterator |-> "none", closed |-> FALSE]

NoRet == [task |-> "none", op |-> "none", res |-> NoExc, swallowed |-> FALSE, reopened |-> FALSE, snap |-> NoSnap,
          val |-> NoRows, sent |-> 0, entry |-> NoEntry]

\* the generator before it ran: branch is the arm of lines 176-189 it took,
\* rows lo..hi-1 of the page are still to be yielded, n is the page's numRows
\* rows holds the strings of the rows lo..hi-1, and transform is the
\* converter of the column that line 174 got ("None" for none, and for zip)
NoGen == [branch |-> "none", num_rows |-> 0, lo |-> 0, hi |-> 0, n |-> 0,
          rows |-> <<>>, transform |-> "None"]

\* lastRecv, lastRet and trail describe the last step only
State ==
    [status |-> status, ws |-> ws, session |-> session, send_msg |-> send_msg,
     recv_msg |-> recv_msg, date_format |-> date_format,
     datetime_format |-> datetime_format, tz |-> tz, autocommit |-> autocommit,
     req_lock |-> req_lock,
     pc |-> pc, op |-> op, cmd |-> cmd, err |-> err, loc |-> loc, rmode |-> rmode,
     swallowed |-> swallowed, reopened |-> reopened, snap |-> snap,
     wsOpen |-> wsOpen, sessOpen |-> sessOpen, pending |-> pending,
     wlog |-> wlog, nconn |-> nconn, lastRecv |-> NoRecv, lastRet |-> NoRet,
     result_type |-> result_type, data |-> data, result_handle |-> result_handle,
     rowcount |-> rowcount, aiterator |-> aiterator, gen |-> gen, got |-> got,
     alive |-> alive, loop_closed |-> loop_closed, arg |-> arg, nres |-> nres,
     nsent |-> nsent, entry |-> entry, fetches |-> fetches, yields |-> yields,
     rowsOut |-> rowsOut, conform |-> conform, closes |-> closes, stayed |-> stayed,
     fate |-> fate, closedOnce |-> closedOnce, raw |-> raw, columns |-> columns,
     result_converter |-> result_converter, cells |-> cells, out |-> out,
     trail |-> <<status>>, closings |-> closings]

Commit(s) ==
    /\ status' = s.status
    /\ ws' = s.ws
    /\ session' = s.session
    /\ send_msg' = s.send_msg
    /\ recv_msg' = s.recv_msg
    /\ date_format' = s.date_format
    /\ datetime_format' = s.datetime_format
    /\ tz' = s.tz
    /\ autocommit' = s.autocommit
    /\ req_lock' = s.req_lock
    /\ pc' = s.pc
    /\ op' = s.op
    /\ cmd' = s.cmd
    /\ err' = s.err
    /\ loc' = s.loc
    /\ rmode' = s.rmode
    /\ swallowed' = s.swallowed
    /\ reopened' = s.reopened
    /\ snap' = s.snap
    /\ wsOpen' = s.wsOpen
    /\ sessOpen' = s.sessOpen
    /\ pending' = s.pending
    /\ wlog' = s.wlog
    /\ nconn' = s.nconn
    /\ lastRecv' = s.lastRecv
    /\ lastRet' = s.lastRet
    /\ result_type' = s.result_type
    /\ data' = s.data
    /\ result_handle' = s.result_handle
    /\ rowcount' = s.rowcount
    /\ aiterator' = s.aiterator
    /\ gen' = s.gen
    /\ got' = s.got
    /\ alive' = s.alive
    /\ loop_closed' = s.loop_closed
    /\ arg' = s.arg
    /\ nres' = s.nres
    /\ nsent' = s.nsent
    /\ entry' = s.entry
    /\ fetches' = s.fetches
    /\ yields' = s.yields
    /\ rowsOut' = s.rowsOut
    /\ conform' = s.conform
    /\ closes' = s.closes
    /\ stayed' = [h \in ResultHandles |-> s.stayed[h] /\ s.status = "CONNECTED"]
    /\ fate' = s.fate
    /\ closedOnce' = s.closedOnce
    /\ raw' = s.raw
    /\ columns' = s.columns
    /\ result_converter' = s.result_converter
    /\ cells' = s.cells
    /\ out' = s.out
    /\ trail' = s.trail
    /\ closings' = s.closings
    /\ UNCHANGED <<use_compression, aclose_running, table, column>>

\* status, handles and framing of the Connection
Snapshot(s) ==
    [status |-> s.status, ws |-> s.ws, session |-> s.session,
     send_msg |-> s.send_msg, recv_msg |-> s.recv_msg]

\* task u is inside close()
InClose(s, u) == s.pc[u] \in {"ws_close", "sess_close"} \/ s.cmd[u] = "disconnect"

\* _connect assigns _session, or _ws and status: note it for the tasks inside close()
MarkReopened(s) == [s EXCEPT !.reopened = [u \in Tasks |-> @[u] \/ InClose(s, u)]]

\* the operation of task t ends: res is NoExc when it returns, else what it raises
Return(s, t, res) ==
    [s EXCEPT !.pc[t] = "idle", !.op[t] = "none", !.cmd[t] = "none", !.err[t] = NoExc,
              !.loc[t] = None, !.rmode[t] = "none", !.swallowed[t] = FALSE,
              !.reopened[t] = FALSE, !.snap[t] = NoSnap,
              !.arg[t] = None, !.nsent[t] = 0, !.entry[t] = NoEntry, !.raw[t] = FALSE,
              !.lastRet = [task |-> t, op |-> s.op[t], res |-> res,
                           swallowed |-> s.swallowed[t], reopened |-> s.reopened[t],
                           snap |-> s.snap[t],
                           val |-> NoRows, sent |-> s.nsent[t], entry |-> s.entry[t]]]

\* the operation of task t ends and hands the value val to its caller
ReturnVal(s, t, res, val) == [Return(s, t, res) EXCEPT !.lastRet.val = val]

----------------------------------------------------------------------------
\* Connection.close, bottom up

\* close() returns; inside __await__ the caught exception is re-raised (line 222)
CloseReturn(s, t) ==
    IF s.op[t] = "await" THEN Return(s, t, s.err[t]) ELSE Return(s, t, NoExc)

\* close(), lines 267-271
CloseSession(s, t) ==
    LET s1 == [s EXCEPT !.status = "CLOSED", !.trail = Append(@, "CLOSED")]
    IN  IF s1.session # None
        THEN [s1 EXCEPT !.session = None, !.sessOpen = @ \ {s1.session},
                        !.closings.session[s1.session] = IF @ < 2 THEN @ + 1 ELSE @,
                        !.pc[t] = "sess_close"]
        ELSE CloseReturn(s1, t)

\* close() closing the websocket without setting _ws to None
CloseWebsocketKeepHandle(s, t) ==
    LET s1 == [s EXCEPT !.status = "CLOSING", !.trail = Append(@, "CLOSING"), !.cmd[t] = "none"]
    IN  IF s1.ws # None
        THEN [s1 EXCEPT !.wsOpen = @ \ {s1.ws},
                        !.pending[s1.ws] = <<>>, !.wlog[s1.ws] = <<>>,
                        !.closings.ws[s1.ws] = IF @ < 2 THEN @ + 1 ELSE @,
                        !.pc[t] = "ws_close"]
        ELSE CloseSession(s1, t)

\* close(), lines 262-266; closing the websocket ends its traffic
CloseWebsocket(s, t) ==
    LET s1 == [s EXCEPT !.status = "CLOSING", !.trail = Append(@, "CLOSING"), !.cmd[t] = "none"]
    IN  IF s1.ws # None
        THEN [s1 EXCEPT !.ws = None, !.wsOpen = @ \ {s1.ws},
                        !.pending[s1.ws] = <<>>, !.wlog[s1.ws] = <<>>,
                        !.closings.ws[s1.ws] = IF @ < 2 THEN @ + 1 ELSE @,
                        !.pc[t] = "ws_close"]
        ELSE CloseSession(s1, t)

RECURSIVE Request(_, _, _, _)

\* close(), lines 256-261
Close(s, t, sendOk) ==
    LET s1 == [s EXCEPT !.reopened[t] = FALSE]
    IN  IF s1.status = "CONNECTED"
        THEN Request([s1 EXCEPT !.status = "DISCONNECTING", !.trail = Append(@, "DISCONNECTING")],
                     t, "disconnect", sendOk)
        ELSE CloseWebsocket(s1, t)

\* __await__ without its except clause: the exception goes straight to the caller
AwaitFailedNoClose(s, t, e, sendOk) == Return([s EXCEPT !.err[t] = e], t, e)

\* __await__, lines 220-222: except BaseException: await self.close(); raise
AwaitFailed(s, t, e, sendOk) == Close([s EXCEPT !.err[t] = e], t, sendOk)

\* an exception leaves _connect, _login or _get_attributes: inside __await__
\* the except clause takes it (lines 220-222), a caller of the method gets it
Failed(s, t, e, sendOk) ==
    IF s.op[t] = "await" THEN AwaitFailed(s, t, e, sendOk) ELSE Return(s, t, e)

\* _login without the test of the status
LoginAnyStatus(s, t, sendOk) == Request(s, t, "login", sendOk)

\* _login, lines 168-176
Login(s, t, sendOk) ==
    IF s.status # "WS_CONNECTED"
    THEN Failed(s, t, Exc("ValueError"), sendOk)
    ELSE Request(s, t, "login", sendOk)

\* _login switching only the send variant
LoggedInSendOnly(s, t, sendOk) ==
    LET s1 == [s EXCEPT !.send_msg = IF use_compression THEN "compressed" ELSE @,
                        !.date_format = "YYYY-MM-DD",
                        !.status = "CONNECTED", !.trail = Append(@, "CONNECTED")]
    IN  Request(s1, t, "getAttributes", sendOk)

\* __await__ without the call of _get_attributes
LoggedInNoAttributes(s, t, sendOk) ==
    Return([s EXCEPT !.recv_msg = IF use_compression THEN "compressed" ELSE @,
                     !.send_msg = IF use_compression THEN "compressed" ELSE @,
                     !.date_format = "YYYY-MM-DD",
                     !.status = "CONNECTED", !.trail = Append(@, "CONNECTED")], t, NoExc)

\* _login, lines 190-194, then _get_attributes where __await__ called it
LoggedIn(s, t, sendOk) ==
    LET s1 == [s EXCEPT !.recv_msg = IF use_compression THEN "compressed" ELSE @,
                        !.send_msg = IF use_compression THEN "compressed" ELSE @,
                        !.date_format = "YYYY-MM-DD",
                        !.status = "CONNECTED", !.trail = Append(@, "CONNECTED")]
    IN  IF s.op[t] = "await" THEN Request(s1, t, "getAttributes", sendOk)
        ELSE Return(s1, t, NoExc)

----------------------------------------------------------------------------
\* Column values and their converters.  The server sends every value as a
\* string; a string is told by its form, its hex digits and its dashes

Text == [form |-> "text", hex |-> 0, dashes |-> 0]

\* the dataType of a column of strings
Varchar == [type |-> "VARCHAR", size |-> 0]

\* '2020-05-23' and '2020-158'
IsoDate == [form |-> "YYYY-MM-DD", hex |-> 0, dashes |-> 2]

OrdinalDate == [form |-> "YYYY-DDD", hex |-> 0, dashes |-> 1]

\* '550e8400-e29b-11d4-a716-446655440099' and the same without its dashes
DashedUuid == [form |-> "hex", hex |-> 32, dashes |-> 4]

Hex32 == [form |-> "hex", hex |-> 32, dashes |-> 0]

\* '550e8400-e29b-11d4-a716-4466554400' and the same without its dashes
Dashed30 == [form |-> "hex", hex |-> 30, dashes |-> 4]

Hex30 == [form |-> "hex", hex |-> 30, dashes |-> 0]

\* len(val) of a string of hex digits and dashes
StrLen(val) == val.hex + val.dashes

\* a converted value, or the ValueError the converter raised
Value(kind, val) == [kind |-> kind, of |-> val]

\* uuid.UUID(val): the dashes are dropped, and 32 hex digits must remain
Uuid(val) ==
    IF val.form = "hex" /\ val.hex = 32 THEN Value("UUID", val) ELSE Value("ValueError", val)

\* bytes.fromhex(val): pairs of hex digits, and no other character but spaces
BytesFromhex(val) ==
    IF val.form = "hex" /\ val.dashes = 0 /\ val.hex % 2 = 0
    THEN Value("bytes", val) ELSE Value("ValueError", val)

\* date.fromisoformat(val)
DateFromisoformat(val) ==
    IF val.form = "YYYY-MM-DD" THEN Value("date", val) ELSE Value("ValueError", val)

\* resultset.py, _get_hash, lines 27-31
GetHash(val) == IF val.dashes > 0 THEN Uuid(val) ELSE BytesFromhex(val)

\* result.py, _get_bytes_or_uuid, lines 35-44
GetBytesOrUuid(val) == IF StrLen(val) = 36 THEN Uuid(val) ELSE BytesFromhex(val)

\* result.py, _get_hashtype_converter, lines 47-50
GetHashtypeConverter(col_data) ==
    IF col_data.size = 32 THEN "_get_bytes_or_uuid" ELSE "bytes.fromhex"

\* get_date_converter, lines 64-68
GetDateConverter(date_fmt) ==
    IF date_fmt = "YYYY-MM-DD" THEN "date.fromisoformat" ELSE "None"

\* the converter of the column for a Result that is not raw.  Connection
\* constructs the Result of resultset.py (connection.py, line 23), whose
\* _get_converter takes _get_hash for every HASHTYPE column
GetConverter(col_data, rc) ==
    IF col_data.type = "DATE" THEN GetDateConverter(rc.date_format)
    ELSE IF col_data.type = "HASHTYPE" THEN "_get_hash"
    ELSE "None"

\* conv(val), and val itself where there is no converter (lines 126-127)
Convert(conv, val) ==
    IF conv = "date.fromisoformat" THEN DateFromisoformat(val)
    ELSE IF conv = "_get_hash" THEN GetHash(val)
    ELSE IF conv = "_get_bytes_or_uuid" THEN GetBytesOrUuid(val)
    ELSE IF conv = "bytes.fromhex" THEN BytesFromhex(val)
    ELSE Value("str", val)

\* what a raw Result keeps: nothing of the session
NoConverter == [raw |-> TRUE, date_format |-> "None", datetime_format |-> "None", tzinfo |-> NoZone]

\* ResultConverter.__init__, lines 56-61
ResultConverter(s) ==
    [raw |-> FALSE, date_format |-> s.date_format,
     datetime_format |-> s.datetime_format, tzinfo |-> s.tz]

\* the transform of a converter that reads the date format of the Connection
\* when the iteration starts
TransformCurrent(s) ==
    IF s.result_converter.raw THEN "None"
    ELSE GetConverter(s.columns, [s.result_converter EXCEPT !.date_format = s.date_format])

\* _aiterate, lines 171-174: zip for a raw Result, else get_transform
Transform(s) ==
    IF s.result_converter.raw THEN "None" ELSE GetConverter(s.columns, s.result_converter)

----------------------------------------------------------------------------
\* Result (src/exasyncio/result.py).  Its row producer is the async generator
\* _aiterate; aiterator is "None" before __aiter__ made it, then "created"
\* (not started), "running", "yielded" (suspended at a yield) or "finished"

RuntimeError == Exc("RuntimeError")

\* task t runs fetchone() or fetchall(), and so the generator
InGen(s, t) == s.op[t] \in {"fetchone", "fetchall"}

\* Result.__init__, lines 138-155, from the response r to execute; a Result
\* that is not raw reads the columns member (line 61)
ResultInit(s, t, r) ==
    IF r.rtype \notin {"rowCount", "resultSet"} THEN Return(s, t, Exc("KeyError"))
    ELSE IF r.rtype = "resultSet" /\ ~s.raw[t] /\ r.col = NoColumn THEN Return(s, t, Exc("KeyError"))
    ELSE LET h  == IF r.rtype = "resultSet" /\ r.rhandle THEN s.nres + 1 ELSE None
             s1 == [s EXCEPT !.result_type = r.rtype,
                             !.columns = IF r.rtype = "resultSet" THEN r.col ELSE NoColumn,
                             !.result_converter = IF r.rtype = "resultSet" /\ ~s.raw[t]
                                                   THEN ResultConverter(s) ELSE NoConverter,
                             !.cells = IF r.rtype = "resultSet" /\ r.rdata # NoRows
                                       THEN r.rvals ELSE <<>>,
                             !.out = <<>>,
                             !.data = IF r.rtype = "resultSet" THEN r.rdata ELSE NoRows,
                             !.result_handle = h,
                             !.rowcount = IF r.rtype = "resultSet" THEN r.numRows ELSE 0,
                             !.aiterator = "None", !.gen = NoGen, !.got = 0,
                             !.alive = TRUE, !.nres = @ + 1,
                             !.fetches = 0, !.yields = 0, !.rowsOut = {},
                             !.conform = 1..MaxPage, !.closedOnce = FALSE]
             s2 == IF h = None THEN s1
                   ELSE [s1 EXCEPT !.closes[h] = 0, !.stayed[h] = TRUE, !.fate[h] = "open"]
         IN  Return(s2, t, NoExc)

\* execute(), line 233
Executed(s, t, res) ==
    IF res # NoExc THEN Return(s, t, res) ELSE ResultInit(s, t, s.lastRecv.resp)

\* __anext__ raises StopAsyncIteration: fetchone() returns None (line 206),
\* fetchall() the rows it collected (line 211)
AnextStop(s, t) ==
    ReturnVal(s, t, NoExc, IF s.op[t] = "fetchall" THEN s.got ELSE NoRows)

\* the generator returns
GenReturn(s, t) == AnextStop([s EXCEPT !.aiterator = "finished"], t)

\* the generator raises e, which ends it, into the operation of task t
GenRaise(s, t, e) == ReturnVal([s EXCEPT !.aiterator = "finished"], t, e, NoRows)

\* the call of close() that cleared the handle s.arg[t] has ended
Fated(s, t) ==
    IF s.arg[t] = None THEN [s EXCEPT !.closedOnce = TRUE]
    ELSE [s EXCEPT !.closedOnce = TRUE,
                   !.fate[s.arg[t]] = IF InGen(s, t) THEN "consumed" ELSE "closed"]

\* close() without lines 220-221: the inline data stays
ResultClosedKeepData(s, t) ==
    LET s1 == Fated(s, t)
    IN  IF s1.aiterator = "None" THEN ReturnVal(s1, t, NoExc, NoRows)
        ELSE IF InGen(s1, t)
        THEN IF aclose_running THEN GenRaise(s1, t, RuntimeError) ELSE GenReturn(s1, t)
        ELSE ReturnVal([s1 EXCEPT !.aiterator = "finished"], t, NoExc, NoRows)

\* close() without lines 222-223: the generator is left as it is
ResultClosedNoAclose(s, t) ==
    LET s1 == [Fated(s, t) EXCEPT !.data = NoRows]
    IN  IF InGen(s1, t) THEN GenReturn(s1, t) ELSE ReturnVal(s1, t, NoExc, NoRows)

\* close(), lines 220-223; at line 191 the generator calls it, and aclose() of
\* the generator that is running is refused with RuntimeError or does nothing,
\* as the interpreter has it
ResultClosed(s, t) ==
    LET s1 == [Fated(s, t) EXCEPT !.data = NoRows]
    IN  IF s1.aiterator = "None" THEN ReturnVal(s1, t, NoExc, NoRows)
        ELSE IF InGen(s1, t)
        THEN IF aclose_running THEN GenRaise(s1, t, RuntimeError) ELSE GenReturn(s1, t)
        ELSE ReturnVal([s1 EXCEPT !.aiterator = "finished"], t, NoExc, NoRows)

\* _close_result returned to its caller: the release scheduled by __del__, or
\* close() at line 219
CloseResultsDone(s, t) ==
    IF s.op[t] = "release" THEN Return(s, t, NoExc) ELSE ResultClosed(s, t)

\* Connection._close_results without the test of the status
CloseResultsAnyStatus(s, t, sendOk) == Request(s, t, "closeResultSet", sendOk)

\* Connection._close_results, lines 247-251, for the handle s.arg[t]
CloseResults(s, t, sendOk) ==
    IF s.status # "CONNECTED" THEN CloseResultsDone(s, t)
    ELSE Request(s, t, "closeResultSet", sendOk)

\* close() that leaves the handle in place
ResultCloseKeepHandle(s, t, sendOk) ==
    IF s.result_handle # None
    THEN CloseResults([s EXCEPT !.arg[t] = s.result_handle], t, sendOk)
    ELSE ResultClosed(s, t)

\* close(), lines 215-219
ResultClose(s, t, sendOk) ==
    IF s.result_handle # None
    THEN CloseResults([s EXCEPT !.result_handle = None, !.arg[t] = s.result_handle], t, sendOk)
    ELSE ResultClosed(s, t)

RECURSIVE Advance(_, _, _)

\* the generator yields row i (lines 184, 189): fetchone() returns it,
\* fetchall() keeps it and asks for the next
\* the row is first transformed (lines 124-128); a converter that raises
\* ends the generator
GotRow(s, t, i, sendOk) ==
    LET v  == Convert(s.gen.transform, Head(s.gen.rows))
        s1 == [s EXCEPT !.aiterator = "yielded", !.yields = @ + 1, !.rowsOut = @ \cup {i},
                        !.gen.rows = Tail(@), !.out = Append(@, v)]
    IN  IF v.kind = "ValueError" THEN GenRaise(s, t, Exc("ValueError"))
        ELSE IF s.op[t] = "fetchone" THEN ReturnVal(s1, t, NoExc, i)
        ELSE Advance([s1 EXCEPT !.got = @ + 1], t, sendOk)

\* _aiterate with an "if" for its "while": it fetches one page only
GenLoopOnePage(s, t, sendOk) ==
    IF s.gen.lo < s.gen.hi
    THEN GotRow([s EXCEPT !.gen.lo = @ + 1], t, s.gen.lo, sendOk)
    ELSE LET s1 == [s EXCEPT !.gen.num_rows = @ + s.gen.n, !.gen.n = 0]
         IN  IF s1.gen.branch = "handle" /\ s1.gen.num_rows < s1.rowcount /\ s1.fetches = 0
             THEN Request(s1, t, "fetch", sendOk)
             ELSE ResultClose(s1, t, sendOk)

\* _aiterate at the head of its loops, lines 179-189: the next row of the
\* page, else the next page, else line 191
GenLoop(s, t, sendOk) ==
    IF s.gen.lo < s.gen.hi
    THEN GotRow([s EXCEPT !.gen.lo = @ + 1], t, s.gen.lo, sendOk)
    ELSE LET s1 == [s EXCEPT !.gen.num_rows = @ + s.gen.n, !.gen.n = 0]
         IN  IF s1.gen.branch = "handle" /\ s1.gen.num_rows < s1.rowcount
             THEN Request(s1, t, "fetch", sendOk)
             ELSE ResultClose(s1, t, sendOk)

\* _aiterate, lines 181-183: the page of the response r to fetch, whose rows
\* stand at the positions from startPosition on
Fetched(s, t, r, sendOk) ==
    IF r.rtype # "page" THEN GenRaise(s, t, Exc("KeyError"))
    ELSE GenLoop([s EXCEPT !.gen.lo = s.gen.num_rows,
                           !.gen.hi = s.gen.num_rows + r.rdata,
                           !.gen.rows = r.rvals,
                           !.gen.n = r.numRows,
                           !.conform = {k \in @ : r.numRows = IF k < s.rowcount - s.gen.num_rows
                                                               THEN k ELSE s.rowcount - s.gen.num_rows}],
                 t, sendOk)

\* _aiterate transforming the rows of inline data only: fetched pages go
\* through zip
GenStartPagesZip(s, t, sendOk) ==
    IF s.result_type # "resultSet" THEN GenRaise(s, t, Exc("ValueError"))
    ELSE IF s.result_handle # None
    THEN GenLoop([s EXCEPT !.gen = [NoGen EXCEPT !.branch = "handle"]], t, sendOk)
    ELSE IF s.data # NoRows
    THEN GenLoop([s EXCEPT !.gen = [NoGen EXCEPT !.branch = "inline", !.hi = s.data,
                                                 !.rows = s.cells,
                                                 !.transform = Transform(s)]], t, sendOk)
    ELSE ResultClose(s, t, sendOk)

\* _aiterate from its start, lines 168-178 and 186-188
GenStart(s, t, sendOk) ==
    IF s.result_type # "resultSet" THEN GenRaise(s, t, Exc("ValueError"))
    ELSE IF s.result_handle # None
    THEN GenLoop([s EXCEPT !.gen = [NoGen EXCEPT !.branch = "handle",
                                                 !.transform = Transform(s)]], t, sendOk)
    ELSE IF s.data # NoRows
    THEN GenLoop([s EXCEPT !.gen = [NoGen EXCEPT !.branch = "inline", !.hi = s.data,
                                                 !.rows = s.cells,
                                                 !.transform = Transform(s)]], t, sendOk)
    ELSE ResultClose(s, t, sendOk)

\* __anext__ of the generator
Advance(s, t, sendOk) ==
    IF s.aiterator = "finished" THEN AnextStop(s, t)
    ELSE IF s.aiterator = "created" THEN GenStart([s EXCEPT !.aiterator = "running"], t, sendOk)
    ELSE GenLoop([s EXCEPT !.aiterator = "running"], t, sendOk)

\* __aiter__ making a new generator at every call
AiterFresh(s) == [s EXCEPT !.aiterator = "created"]

\* __aiter__, lines 197-199
Aiter(s) == IF s.aiterator = "None" THEN [s EXCEPT !.aiterator = "created"] ELSE s

\* what task t runs once a fetch or closeResultSet request returned or raised
ResumeResult(s, t, res, sendOk) ==
    IF s.cmd[t] = "fetch"
    THEN IF res # NoExc THEN GenRaise(s, t, res)
         ELSE Fetched(s, t, s.lastRecv.resp, sendOk)
    ELSE IF s.op[t] = "release" THEN Return(s, t, res)
    ELSE IF res = NoExc THEN CloseResultsDone(s, t)
    ELSE IF InGen(s, t) THEN GenRaise(Fated(s, t), t, res)
    ELSE ReturnVal(Fated(s, t), t, res, NoRows)

\* close() without the try around the disconnect request: its failure is raised
ResumeRaising(s, t, res, key, sendOk) ==
    IF s.cmd[t] = "disconnect"
    THEN IF res # NoExc THEN Return(s, t, res) ELSE CloseWebsocket(s, t)
    ELSE IF s.cmd[t] \in {"fetch", "closeResultSet"} THEN ResumeResult(s, t, res, sendOk)
    ELSE IF s.op[t] = "execute" THEN Executed(s, t, res)
    ELSE IF res # NoExc THEN Failed(s, t, res, sendOk)
    ELSE IF s.cmd[t] = "login"
         THEN IF key THEN Request(s, t, "credentials", sendOk)
              ELSE Failed(s, t, Exc("KeyError"), sendOk)
    ELSE IF s.cmd[t] = "credentials" THEN LoggedIn(s, t, sendOk)
    ELSE Return(s, t, NoExc)

\* what task t runs once its _request returned (res = NoExc) or raised res;
\* key: the response holds a usable publicKeyPem
Resume(s, t, res, key, sendOk) ==
    IF s.cmd[t] = "disconnect"
    THEN CloseWebsocket([s EXCEPT !.swallowed[t] = (res # NoExc)], t)
    ELSE IF s.cmd[t] \in {"fetch", "closeResultSet"} THEN ResumeResult(s, t, res, sendOk)
    ELSE IF s.op[t] = "execute" THEN Executed(s, t, res)
    ELSE IF res # NoExc THEN Failed(s, t, res, sendOk)
    ELSE IF s.cmd[t] = "login"
         THEN IF key THEN Request(s, t, "credentials", sendOk)
              ELSE Failed(s, t, Exc("KeyError"), sendOk)
    ELSE IF s.cmd[t] = "credentials" THEN LoggedIn(s, t, sendOk)
    ELSE Return(s, t, NoExc)

\* leaving "async with self._req_lock"
Unlock(s) == [s EXCEPT !.req_lock.locked = FALSE]

\* _send_msg is called with a request of the Result: count it
Sending(s, t) ==
    IF s.cmd[t] = "fetch"
    THEN [s EXCEPT !.nsent[t] = @ + 1, !.fetches = @ + 1]
    ELSE IF s.cmd[t] = "closeResultSet"
    THEN [s EXCEPT !.nsent[t] = @ + 1,
                   !.closes[s.arg[t]] = IF @ < 2 THEN @ + 1 ELSE @]
    ELSE IF s.cmd[t] = "disconnect"
    THEN [s EXCEPT !.closings.disconnect[s.ws] = IF @ < 2 THEN @ + 1 ELSE @]
    ELSE s

\* _request releasing the lock only where it returns, not where it raises
SendMsgLockKept(s, t, sendOk) ==
    IF s.ws = None
    THEN Resume(s, t, Exc("AttributeError"), FALSE, sendOk)
    ELSE IF ~sendOk
    THEN Resume(Sending(s, t), t, Exc("TransportError"), FALSE, sendOk)
    ELSE [Sending(s, t)
                 EXCEPT !.pending[s.ws] = Append(@, [task |-> t, cmd |-> s.cmd[t], mode |-> s.send_msg]),
                   !.wlog[s.ws] = IF Len(@) < MaxLog THEN Append(@, s.cmd[t]) ELSE @,
                   !.pc[t] = "recv", !.loc[t] = s.ws, !.rmode[t] = s.recv_msg]

\* _request, lines 161-162, the lock held: send, then wait for the frame
SendMsg(s, t, sendOk) ==
    IF s.ws = None
    THEN Resume(Unlock(s), t, Exc("AttributeError"), FALSE, sendOk)
    ELSE IF ~sendOk
    THEN Resume(Unlock(Sending(s, t)), t, Exc("TransportError"), FALSE, sendOk)
    ELSE [Sending(s, t)
                 EXCEPT !.pending[s.ws] = Append(@, [task |-> t, cmd |-> s.cmd[t], mode |-> s.send_msg]),
                   !.wlog[s.ws] = IF Len(@) < MaxLog THEN Append(@, s.cmd[t]) ELSE @,
                   !.pc[t] = "recv", !.loc[t] = s.ws, !.rmode[t] = s.recv_msg]

\* _request without "async with self._req_lock"
RequestUnlocked(s, t, c, sendOk) == SendMsg([s EXCEPT !.cmd[t] = c], t, sendOk)

\* _request, line 160: asyncio.Lock.acquire takes a free lock that nobody waits
\* for at once, and queues the task first in, first out otherwise
Request(s, t, c, sendOk) ==
    LET s1 == [s EXCEPT !.cmd[t] = c]
    IN  IF ~s1.req_lock.locked /\ s1.req_lock.waiters = <<>>
        THEN SendMsg([s1 EXCEPT !.req_lock.locked = TRUE], t, sendOk)
        ELSE [s1 EXCEPT !.req_lock.waiters = Append(@, t), !.pc[t] = "lock"]

----------------------------------------------------------------------------
\* Steps

\* no Result has been constructed
InitResult ==
    /\ result_type = "none"
    /\ data = NoRows
    /\ result_handle = None
    /\ rowcount = 0
    /\ aiterator = "None"
    /\ gen = NoGen
    /\ got = 0
    /\ alive = FALSE
    /\ loop_closed = FALSE
    /\ arg = [t \in Tasks |-> None]
    /\ nres = 0
    /\ nsent = [t \in Tasks |-> 0]
    /\ entry = [t \in Tasks |-> NoEntry]
    /\ fetches = 0
    /\ yields = 0
    /\ rowsOut = {}
    /\ conform = 1..MaxPage
    /\ closes = [h \in ResultHandles |-> 0]
    /\ stayed = [h \in ResultHandles |-> FALSE]
    /\ fate = [h \in ResultHandles |-> "open"]
    /\ closedOnce = FALSE
    /\ raw = [t \in Tasks |-> FALSE]
    /\ columns = NoColumn
    /\ result_converter = NoConverter
    /\ cells = <<>>
    /\ out = <<>>

\* Connection.__init__, lines 60-91
InitConnection ==
    /\ status = "CLOSED"
    /\ ws = None
    /\ session = None
    /\ send_msg = "plain"
    /\ recv_msg = "plain"
    /\ use_compression \in BOOLEAN
    /\ date_format = "None"
    /\ datetime_format = "None"
    /\ tz = NoZone
    /\ autocommit = TRUE
    /\ req_lock = [locked |-> FALSE, waiters |-> <<>>]
    /\ pc = [t \in Tasks |-> "idle"]
    /\ op = [t \in Tasks |-> "none"]
    /\ cmd = [t \in Tasks |-> "none"]
    /\ err = [t \in Tasks |-> NoExc]
    /\ loc = [t \in Tasks |-> None]
    /\ rmode = [t \in Tasks |-> "none"]
    /\ swallowed = [t \in Tasks |-> FALSE]
    /\ reopened = [t \in Tasks |-> FALSE]
    /\ snap = [t \in Tasks |-> NoSnap]
    /\ wsOpen = {}
    /\ sessOpen = {}
    /\ pending = [w \in Handles |-> <<>>]
    /\ wlog = [w \in Handles |-> <<>>]
    /\ nconn = 0
    /\ lastRecv = NoRecv
    /\ lastRet = NoRet
    /\ trail = <<"CLOSED">>
    /\ closings = [disconnect |-> [w \in Handles |-> 0], ws |-> [w \in Handles |-> 0],
                   session |-> [w \in Handles |-> 0]]

\* the query selects rows of text
InitTable == table = <<>> /\ column = Varchar

\* no Result is iterated under Spec and SpecSeq, where the frames hold none
Init == InitConnection /\ InitResult /\ InitTable /\ aclose_running = FALSE

\* the interpreter refuses aclose() of a running generator (CPython from
\* 3.10 on) or lets it pass (3.8, 3.9)
InitRes ==
    InitConnection /\ ~use_compression /\ InitResult /\ InitTable /\ aclose_running \in BOOLEAN

\* "await cn": __await__ up to the suspension in _connect (lines 215, 99-103)
Await(t) ==
    /\ pc[t] = "idle"
    /\ \E sendOk \in BOOLEAN :
         IF status # "CLOSED"
         THEN Commit(AwaitFailed([State EXCEPT !.op[t] = "await", !.snap[t] = Snapshot(State)],
                                 t, Exc("ValueError"), sendOk))
         ELSE /\ nconn < MaxConnects
              /\ Commit(MarkReopened(
                     [State EXCEPT !.op[t] = "await", !.session = nconn + 1,
                                   !.sessOpen = @ \cup {nconn + 1}, !.nconn = nconn + 1,
                                   !.loc[t] = nconn + 1, !.pc[t] = "connecting"]))

\* _connect done (line 105): __await__ goes on with _login, a caller of
\* _connect has its return
AfterConnect(s, t, sendOk) ==
    IF s.op[t] = "await" THEN Login(s, t, sendOk) ELSE Return(s, t, NoExc)

\* ws_connect ends (lines 103-105), then _login runs up to its first frame
Connected(t) ==
    /\ pc[t] = "connecting"
    /\ \E ok \in BOOLEAN, sendOk \in BOOLEAN :
         IF ~ok \/ loc[t] \notin sessOpen
         THEN Commit(Failed(State, t, Exc("TransportError"), sendOk))
         ELSE Commit(AfterConnect(MarkReopened(
                  [State EXCEPT !.ws = loc[t], !.wsOpen = @ \cup {loc[t]},
                                !.status = "WS_CONNECTED",
                                !.trail = Append(@, "WS_CONNECTED")]), t, sendOk))

\* "await cn._connect()" up to its suspension (lines 99-103)
ConnectCall(t) ==
    /\ pc[t] = "idle"
    /\ IF status # "CLOSED"
       THEN Commit(Return([State EXCEPT !.op[t] = "connect"], t, Exc("ValueError")))
       ELSE /\ nconn < MaxConnects
            /\ Commit(MarkReopened(
                   [State EXCEPT !.op[t] = "connect", !.session = nconn + 1,
                                 !.sessOpen = @ \cup {nconn + 1}, !.nconn = nconn + 1,
                                 !.loc[t] = nconn + 1, !.pc[t] = "connecting"]))

\* "await cn._login()" up to its first suspension (lines 168-176)
LoginCall(t) ==
    /\ pc[t] = "idle"
    /\ \E sendOk \in BOOLEAN :
         Commit(Login([State EXCEPT !.op[t] = "login"], t, sendOk))

\* the lock is handed to the first waiter, which sends
LockAcquired(t) ==
    /\ pc[t] = "lock"
    /\ ~req_lock.locked
    /\ req_lock.waiters # <<>>
    /\ Head(req_lock.waiters) = t
    /\ \E sendOk \in BOOLEAN :
         Commit(SendMsg([State EXCEPT !.req_lock = [locked |-> TRUE, waiters |-> Tail(@.waiters)]],
                        t, sendOk))

\* the frame r, answering the request of task re, reaches _recv in task t
Handle(t, s, r, re, sendOk) ==
    LET res == RecvResult(r, rmode[t])
        s1 == [s EXCEPT !.lastRecv = [task |-> t, cmd |-> cmd[t], re |-> re, resp |-> r,
                                      mode |-> rmode[t], raised |-> res.raised]]
    IN  Commit(Resume(Unlock(RecvAttributes(s1, r, rmode[t])), t, res.raised, r.key, sendOk))

\* _ws.receive() returns in task t.  The server answers the requests of a
\* websocket in the order it got them, each with one frame of its choice out
\* of the set frames; a websocket closed meanwhile yields its closing message
Recv(t, frames) ==
    /\ pc[t] = "recv"
    /\ \E sendOk \in BOOLEAN :
         IF loc[t] \notin wsOpen
         THEN Handle(t, State, ClosedFrame, "none", sendOk)
         ELSE /\ pending[loc[t]] # <<>>
              /\ \E r \in frames :
                   Handle(t, [State EXCEPT !.pending[loc[t]] = Tail(@)],
                          r, Head(pending[loc[t]]).task, sendOk)

\* the task is cancelled while _request is suspended: CancelledError is
\* raised at its await.  Waiting for the frame it holds the lock, which
\* "async with" releases (line 160), and its request stays unanswered on the
\* wire; waiting for the lock it leaves the queue of the lock
Cancel(t) ==
    /\ pc[t] \in {"recv", "lock"}
    /\ pc[t] = "recv" => Len(pending[loc[t]]) <= MaxStale
    /\ \E sendOk \in BOOLEAN :
         IF pc[t] = "recv"
         THEN Commit(Resume(Unlock(State), t, Exc("CancelledError"), FALSE, sendOk))
         ELSE Commit(Resume([State EXCEPT !.req_lock.waiters = SelectSeq(@, LAMBDA u : u # t)],
                            t, Exc("CancelledError"), FALSE, sendOk))

\* cn.execute(query, raw)
ExecuteWith(t, r) ==
    /\ pc[t] = "idle"
    /\ \E sendOk \in BOOLEAN :
         Commit(Request([State EXCEPT !.op[t] = "execute", !.raw[t] = r], t, "execute", sendOk))

\* cn.execute(query): raw is False
Execute(t) == ExecuteWith(t, FALSE)

\* cn.close()
CloseCall(t) ==
    /\ pc[t] = "idle"
    /\ \E sendOk \in BOOLEAN :
         Commit(Close([State EXCEPT !.op[t] = "close"], t, sendOk))

\* websocket.close() ends (line 266)
WsClosed(t) ==
    /\ pc[t] = "ws_close"
    /\ Commit(CloseSession(State, t))

\* session.close() ends (line 271)
SessClosed(t) ==
    /\ pc[t] = "sess_close"
    /\ Commit(CloseReturn(State, t))

\* no operation is under way
Quiet == \A u \in Tasks : pc[u] = "idle"

\* no task is inside fetchone(), fetchall() or close() of the Result
ResultIdle == \A u \in Tasks : op[u] \notin {"fetchone", "fetchall", "res_close"}

\* task t calls the operation o of the Result
Called(s, t, o) ==
    [s EXCEPT !.op[t] = o, !.got = 0,
              !.entry[t] = [status |-> s.status, handle |-> s.result_handle,
                            aiterator |-> s.aiterator, closed |-> s.closedOnce]]

\* res.fetchone(), lines 206-207
Fetchone(t) ==
    /\ pc[t] = "idle" /\ alive /\ ResultIdle
    /\ \E sendOk \in BOOLEAN :
         Commit(Advance(Aiter(Called(State, t, "fetchone")), t, sendOk))

\* res.fetchall(), line 211
Fetchall(t) ==
    /\ pc[t] = "idle" /\ alive /\ ResultIdle
    /\ \E sendOk \in BOOLEAN :
         Commit(Advance(Aiter(Called(State, t, "fetchall")), t, sendOk))

\* res.close()
ResultCloseCall(t) ==
    /\ pc[t] = "idle" /\ alive /\ ResultIdle
    /\ \E sendOk \in BOOLEAN :
         Commit(ResultClose(Called(State, t, "res_close"), t, sendOk))

\* __del__ scheduling the release whatever the status and the loop
DelAlways(s, t) ==
    IF s.result_handle # None
    THEN [s EXCEPT !.alive = FALSE, !.result_handle = None,
                   !.fate[s.result_handle] = "finalized",
                   !.op[t] = "release", !.pc[t] = "scheduled", !.arg[t] = s.result_handle]
    ELSE [s EXCEPT !.alive = FALSE]

\* Result.__del__, lines 226-239: the release is scheduled as a task t of the loop
Del(s, t) ==
    IF s.result_handle # None /\ s.status = "CONNECTED" /\ ~s.loop_closed
    THEN [s EXCEPT !.alive = FALSE, !.result_handle = None,
                   !.fate[s.result_handle] = "finalized",
                   !.op[t] = "release", !.pc[t] = "scheduled", !.arg[t] = s.result_handle]
    ELSE IF s.result_handle # None
    THEN [s EXCEPT !.alive = FALSE, !.fate[s.result_handle] = "finalized"]
    ELSE [s EXCEPT !.alive = FALSE]

\* the caller drops its last reference to the Result while no operation of
\* the Result runs
Finalize(t) ==
    /\ pc[t] = "idle" /\ alive /\ ResultIdle
    /\ Commit(Del(State, t))

\* the loop runs the release that __del__ scheduled: _close_result
ReleaseRun(t) ==
    /\ pc[t] = "scheduled"
    /\ \E sendOk \in BOOLEAN : Commit(CloseResults(State, t, sendOk))

\* the event loop is closed when nothing is left to run
LoopClose ==
    /\ Quiet
    /\ ~loop_closed
    /\ Commit([State EXCEPT !.loop_closed = TRUE])

\* cn.execute(query) while the caller holds no Result
ExecuteRes(t) ==
    /\ ~alive
    /\ nres < MaxResults
    /\ \A u \in Tasks : op[u] # "execute"
    /\ Execute(t)

\* frames that take the callers of _recv each way they can go: a response
\* with and without a usable key, and three kinds of failure
Outcomes ==
    {[EmptyObject EXCEPT !.status = "ok", !.key = TRUE],
     [EmptyObject EXCEPT !.status = "ok"],
     [EmptyObject EXCEPT !.body = "notjson"],
     [EmptyObject EXCEPT !.frame = "bad_deflate", !.body = "notjson"],
     [EmptyObject EXCEPT !.status = "error",
                         !.exc = [kind |-> "object", sqlCode |-> "08004", text |-> "Connection exception"]]}

\* tasks use the Connection concurrently
Next ==
    \/ \E t \in Tasks : Await(t)
    \/ \E t \in Tasks : Connected(t)
    \/ \E t \in Tasks : LockAcquired(t)
    \/ \E t \in Tasks : Recv(t, Outcomes)
    \/ \E t \in Tasks : Execute(t)
    \/ \E t \in Tasks : CloseCall(t)
    \/ \E t \in Tasks : WsClosed(t)
    \/ \E t \in Tasks : SessClosed(t)

Spec == Init /\ [][Next]_vars

OkFrame == [EmptyObject EXCEPT !.status = "ok"]

ErrorFrame ==
    [EmptyObject EXCEPT !.status = "error",
                        !.exc = [kind |-> "object", sqlCode |-> "08004", text |-> "Connection exception"]]

\* n rows of text
TextRows(n) == [i \in 1..n |-> Text]

\* responses to execute: a row count; a result set with its rows inline; one
\* with a handle and up to MaxRows rows; an empty one with neither
ResultFrames ==
    {[OkFrame EXCEPT !.rtype = "rowCount"],
     [OkFrame EXCEPT !.rtype = "resultSet", !.col = column]}
    \cup {[OkFrame EXCEPT !.rtype = "resultSet", !.col = column,
                          !.rdata = n, !.rvals = TextRows(n), !.numRows = n] : n \in {0, MaxPage}}
    \cup {[OkFrame EXCEPT !.rtype = "resultSet", !.col = column,
                          !.rhandle = TRUE, !.numRows = n] : n \in 0..MaxRows}

\* responses to fetch: a page of up to MaxPage rows; one without rows only
\* while fewer than MaxFetches requests were sent
PageFrames ==
    {[OkFrame EXCEPT !.rtype = "page", !.rdata = n, !.rvals = TextRows(n), !.numRows = n] :
         n \in (IF fetches < MaxFetches THEN 0 ELSE 1)..MaxPage}

\* what the server may answer to the command c: an error, or the response
\* that fits the command
Answers(c) ==
    {ErrorFrame}
    \cup (IF c = "login" THEN {[OkFrame EXCEPT !.key = TRUE]}
          ELSE IF c = "execute" THEN ResultFrames
          ELSE IF c = "fetch" THEN PageFrames
          ELSE {OkFrame})

\* the task that opens the Connection, executes and uses the Result
Caller == "t1"

\* the task that runs the release __del__ schedules, and may close the Connection
Other == "t2"

\* the Connection, opened once, and one Result at a time: the operations of
\* the Result, close() of the Connection by either task, the finalization
\* of the Result and the scheduled release interleave
NextRes ==
    \/ ~loop_closed /\ nconn = 0 /\ Quiet /\ Await(Caller)
    \/ \E t \in Tasks : Connected(t)
    \/ \E t \in Tasks : LockAcquired(t)
    \/ \E t \in Tasks : Recv(t, Answers(cmd[t]))
    \/ ~loop_closed /\ ExecuteRes(Caller)
    \/ \E t \in Tasks : ~loop_closed /\ CloseCall(t)
    \/ \E t \in Tasks : WsClosed(t)
    \/ \E t \in Tasks : SessClosed(t)
    \/ ~loop_closed /\ Fetchone(Caller)
    \/ ~loop_closed /\ Fetchall(Caller)
    \/ ~loop_closed /\ ResultCloseCall(Caller)
    \/ Finalize(Other)
    \/ ReleaseRun(Other)
    \/ LoopClose

SpecRes == InitRes /\ [][NextRes]_vars

\* the formats and the names of time zones a server may report
DateFormats == {"YYYY-MM-DD", "YYYY-DDD"}

DatetimeFormats == {"YYYY-MM-DD HH24:MI:SS.FF3"}

TimezoneNames == {<<"U", "T", "C">>, <<"Z", "U", "L", "U">>, <<"Z", "u", "l", "u">>,
                  <<"M", "a", "r", "s">>}

\* an attributes object: empty, or with one member
Attributes ==
    {[dateFormat |-> d, datetimeFormat |-> "absent", timezone |-> NoZone, autocommit |-> "absent"] :
         d \in DateFormats \cup {"absent"}}
    \cup {[dateFormat |-> "absent", datetimeFormat |-> d, timezone |-> NoZone, autocommit |-> "absent"] :
              d \in DatetimeFormats}
    \cup {[dateFormat |-> "absent", datetimeFormat |-> "absent", timezone |-> z, autocommit |-> "absent"] :
              z \in TimezoneNames}
    \cup {[dateFormat |-> "absent", datetimeFormat |-> "absent", timezone |-> NoZone, autocommit |-> a] :
              a \in {"true", "false"}}

\* the frame f with the attributes object a
WithAttributes(f, a) ==
    [f EXCEPT !.attrs = "object", !.dateFormat = a.dateFormat,
              !.datetimeFormat = a.datetimeFormat, !.timezone = a.timezone,
              !.autocommit = a.autocommit]

\* the attributes objects that are empty or hold a date format
DateAttributes == {a \in Attributes : a.datetimeFormat = "absent" /\ a.timezone = NoZone
                                           /\ a.autocommit = "absent"}

\* the frames of F as they are, and with each attributes object of A
Attributed(F, A) == F \cup {WithAttributes(f, a) : f \in F, a \in A}

\* the columns a query may select, and the strings a server may send for them
DateColumn == [type |-> "DATE", size |-> 0]

HashColumn(size) == [type |-> "HASHTYPE", size |-> size]

Columns == {DateColumn, HashColumn(32), HashColumn(30)}

Strings(col) ==
    IF col.type = "DATE" THEN <<IsoDate, OrdinalDate>>
    ELSE IF col.type = "HASHTYPE" THEN <<DashedUuid, Hex32, Dashed30, Hex30>>
    ELSE <<Text>>

\* n rows whose neighbours differ: row i holds the string k + i - 1 of the
\* column, cyclically
Cyclic(col, k, n) == [i \in 1..n |-> Strings(col)[((k + i - 2) % Len(Strings(col))) + 1]]

\* the tables a query may select: the empty one, one row of each string, and
\* MaxRows rows
Tables(col) ==
    {<<>>, Cyclic(col, 1, MaxRows)} \cup {Cyclic(col, k, 1) : k \in 1..Len(Strings(col))}

\* responses to execute for the table: (a row count,) the rows inline, or a handle
TableFrames ==
    {[OkFrame EXCEPT !.rtype = "rowCount"],
     [OkFrame EXCEPT !.rtype = "resultSet", !.col = column,
                     !.rdata = Len(table), !.rvals = table, !.numRows = Len(table)],
     [OkFrame EXCEPT !.rtype = "resultSet", !.col = column,
                     !.rhandle = TRUE, !.numRows = Len(table)]}

\* responses to fetch from startPosition on: a page of one row at least, and
\* of MaxPage rows and the rows that are left at most
TablePages ==
    {[OkFrame EXCEPT !.rtype = "page", !.rdata = n, !.numRows = n,
                     !.rvals = SubSeq(table, gen.num_rows + 1, gen.num_rows + n)] :
         n \in {k \in 1..MaxPage : gen.num_rows + k <= Len(table)}}

\* what the server may answer to the command c: an error, or the response that
\* fits the command, each with or without attributes out of A
TableAnswers(c, A) ==
    Attributed({ErrorFrame}
               \cup (IF c = "login" THEN {[OkFrame EXCEPT !.key = TRUE]}
                     ELSE IF c = "execute" THEN TableFrames
                     ELSE IF c = "fetch" THEN TablePages
                     ELSE {OkFrame}), A)

\* one task opens the Connection, executes a query on the table and reads
\* the Result, raw or converted
NextConv ==
    \/ nconn = 0 /\ Await(Caller)
    \/ Connected(Caller)
    \/ Recv(Caller, TableAnswers(cmd[Caller], DateAttributes))
    \/ \E r \in BOOLEAN : ~alive /\ nres < MaxResults /\ ExecuteWith(Caller, r)
    \/ CloseCall(Caller)
    \/ WsClosed(Caller)
    \/ SessClosed(Caller)
    \/ Fetchone(Caller)
    \/ Fetchall(Caller)
    \/ ResultCloseCall(Caller)

InitConv ==
    /\ InitConnection /\ ~use_compression /\ InitResult /\ aclose_running \in BOOLEAN
    /\ column \in Columns
    /\ table \in Tables(column)

SpecConv == InitConv /\ [][NextConv]_vars

\* one task opens the Connection, executes a query and reads and closes the
\* Result, and the server reports attributes of every kind
NextAttr ==
    \/ nconn = 0 /\ Await(Caller)
    \/ Connected(Caller)
    \/ Recv(Caller, TableAnswers(cmd[Caller], Attributes))
    \/ ~alive /\ nres < MaxResults /\ Execute(Caller)
    \/ CloseCall(Caller)
    \/ WsClosed(Caller)
    \/ SessClosed(Caller)
    \/ Fetchall(Caller)
    \/ ResultCloseCall(Caller)

InitAttr ==
    /\ InitConnection /\ InitResult /\ aclose_running = TRUE
    /\ column = Varchar
    /\ table = TextRows(MaxPage + 1)

SpecAttr == InitAttr /\ [][NextAttr]_vars

\* the Connection is used by one operation at a time, and the server may
\* answer with any frame of Responses
NextSeq ==
    \/ \E t \in Tasks : Quiet /\ Await(t)
    \/ \E t \in Tasks : Connected(t)
    \/ \E t \in Tasks : Recv(t, Responses)
    \/ \E t \in Tasks : Quiet /\ Execute(t)
    \/ \E t \in Tasks : Quiet /\ CloseCall(t)
    \/ \E t \in Tasks : WsClosed(t)
    \/ \E t \in Tasks : SessClosed(t)

SpecSeq == Init /\ [][NextSeq]_vars

\* one task, one operation at a time, the steps of __await__ also called
\* by themselves
NextSteps ==
    \/ Await(Caller)
    \/ Connected(Caller)
    \/ Recv(Caller, Responses)
    \/ Execute(Caller)
    \/ CloseCall(Caller)
    \/ WsClosed(Caller)
    \/ SessClosed(Caller)
    \/ ConnectCall(Caller)
    \/ LoginCall(Caller)

SpecSteps == Init /\ [][NextSteps]_vars

\* the Connection is opened while nothing else runs; close() and execute()
\* are called by both tasks at any time
NextClose ==
    \/ \E t \in Tasks : Quiet /\ Await(t)
    \/ \E t \in Tasks : Connected(t)
    \/ \E t \in Tasks : LockAcquired(t)
    \/ \E t \in Tasks : Recv(t, Outcomes)
    \/ \E t \in Tasks : Execute(t)
    \/ \E t \in Tasks : CloseCall(t)
    \/ \E t \in Tasks : WsClosed(t)
    \/ \E t \in Tasks : SessClosed(t)

SpecClose == Init /\ [][NextClose]_vars

\* as NextClose, and a task suspended in _request may be cancelled
NextAbort ==
    \/ \E t \in Tasks : Quiet /\ Await(t)
    \/ \E t \in Tasks : Connected(t)
    \/ \E t \in Tasks : LockAcquired(t)
    \/ \E t \in Tasks : Recv(t, Outcomes)
    \/ \E t \in Tasks : Cancel(t)
    \/ \E t \in Tasks : Execute(t)
    \/ \E t \in Tasks : CloseCall(t)
    \/ \E t \in Tasks : WsClosed(t)
    \/ \E t \in Tasks : SessClosed(t)

SpecAbort == Init /\ [][NextAbort]_vars

----------------------------------------------------------------------------
\* Properties

Receiving == {t \in Tasks : pc[t] = "recv"}

\* _recv handled a frame in the last step
Handled == lastRecv.task # "none"

\* C1: at most one request is between its send and its receive, every
\* unanswered request on the wire belongs to the task that is receiving, and a
\* response that is read answers the request of the task that reads it
C1_SingleFlightPairing ==
    /\ Cardinality(Receiving) <= 1
    /\ \A w \in Handles : \A i \in 1..Len(pending[w]) :
           pc[pending[w][i].task] = "recv" /\ loc[pending[w][i].task] = w
    /\ (Handled /\ lastRecv.re # "none") => lastRecv.re = lastRecv.task

\* a task read the response to its own request while another task was queued
\* for the lock
C1_Witness ==
    /\ Handled
    /\ lastRecv.re = lastRecv.task
    /\ \E u \in Tasks : pc[u] = "lock"

\* C2: a call of close() returns without raising and, unless a _connect
\* assigned handles while it ran, leaves the status CLOSED, also when its
\* disconnect request failed
C2_CloseIdempotent ==
    lastRet.op = "close" =>
        /\ lastRet.res = NoExc
        /\ ~lastRet.reopened => status = "CLOSED"

\* close() returned with the status CLOSED after its disconnect request failed
C2_Witness ==
    /\ lastRet.op = "close"
    /\ lastRet.swallowed
    /\ ~lastRet.reopened
    /\ status = "CLOSED"

\* C3: when a failed await raises to its caller the status is CLOSED, both
\* handles are None and released, and what is raised is the exception that
\* made the sequence fail
C3_FailedAwaitClosed ==
    /\ [](lastRet.op = "await" /\ lastRet.res # NoExc =>
            /\ status = "CLOSED"
            /\ ws = None /\ session = None
            /\ wsOpen = {} /\ sessOpen = {})
    /\ [][\A t \in Tasks :
            /\ (op[t] = "await" /\ err[t] = NoExc /\ lastRecv'.task = t /\ lastRecv'.raised # NoExc)
                   => \/ err'[t] = lastRecv'.raised
                      \/ (pc'[t] = "idle" /\ lastRet'.task = t /\ lastRet'.res = lastRecv'.raised)
            /\ (op[t] = "await" /\ err[t] # NoExc)
                   => \/ (pc'[t] # "idle" /\ err'[t] = err[t])
                      \/ (pc'[t] = "idle" /\ lastRet'.task = t /\ lastRet'.res = err[t])]_vars

\* an await refused by the server for its credentials raised the server's error
C3_Witness ==
    /\ lastRet.op = "await"
    /\ lastRet.res = ExaServerError("08004", "Connection exception")
    /\ status = "CLOSED"

\* C4 as claimed: an await on a Connection that is not CLOSED raises ValueError
\* and leaves status, handles and framing as they were
C4_RefusedAwaitKeepsState ==
    (lastRet.op = "await" /\ lastRet.snap # NoSnap) =>
        /\ lastRet.res = Exc("ValueError")
        /\ Snapshot(State) = lastRet.snap

LoginSequence == <<"login", "credentials", "getAttributes">>

\* the place of command c in the login sequence, 0 for another command
Place(c) ==
    IF c = "login" THEN 1 ELSE IF c = "credentials" THEN 2
    ELSE IF c = "getAttributes" THEN 3 ELSE 0

\* C5: while an await waits for the response to its k-th request, the
\* websocket has carried the first k commands of the login sequence and nothing
\* else; when it returns, the three commands and nothing else, and the status
\* is CONNECTED
C5_LoginSequence ==
    /\ \A t \in Tasks : (op[t] = "await" /\ pc[t] = "recv" /\ Place(cmd[t]) > 0) =>
           wlog[loc[t]] = SubSeq(LoginSequence, 1, Place(cmd[t]))
    /\ (lastRet.op = "await" /\ lastRet.res = NoExc) =>
           /\ status = "CONNECTED"
           /\ ws # None
           /\ wlog[ws] = LoginSequence

\* an await returned
C5_Witness == lastRet.op = "await" /\ lastRet.res = NoExc

\* C6 as claimed: both login requests are sent, and their responses read,
\* with plain framing
C6_LoginFramingPlain ==
    /\ \A w \in Handles : \A i \in 1..Len(pending[w]) :
           pending[w][i].cmd \in {"login", "credentials"} => pending[w][i].mode = "plain"
    /\ \A t \in Tasks : (pc[t] = "recv" /\ cmd[t] \in {"login", "credentials"}) =>
           rmode[t] = "plain"

\* C7: without compression the framing stays plain; with it, send and receive
\* framing change together, only from plain to compressed, only in the step
\* that handles the successful response to the credentials request, and from
\* the first CONNECTED on every request is sent and every response read
\* compressed
C7_CompressionSwitch ==
    /\ [](/\ send_msg = recv_msg
          /\ ~use_compression => send_msg = "plain"
          /\ (use_compression /\ status \in {"CONNECTED", "DISCONNECTING"}) =>
                 send_msg = "compressed"
          /\ send_msg = "compressed" =>
                 /\ \A w \in Handles : \A i \in 1..Len(pending[w]) :
                        pending[w][i].mode = "compressed"
                 /\ \A t \in Tasks : pc[t] = "recv" => rmode[t] = "compressed")
    /\ [][(send_msg' # send_msg \/ recv_msg' # recv_msg) =>
            /\ use_compression
            /\ send_msg = "plain" /\ recv_msg = "plain"
            /\ send_msg' = "compressed" /\ recv_msg' = "compressed"
            /\ lastRecv'.cmd = "credentials" /\ lastRecv'.raised = NoExc]_vars

\* getAttributes was sent compressed and its response is awaited compressed
C7_Witness ==
    \E t \in Tasks :
        /\ pc[t] = "recv" /\ cmd[t] = "getAttributes" /\ rmode[t] = "compressed"
        /\ pending[loc[t]] # <<>>
        /\ Head(pending[loc[t]]).mode = "compressed"

\* the payload was read, and is no JSON, JSON without a status member, or
\* has a status other than "ok" and "error"
Malformed(r, mode) ==
    /\ RecvMsg(r, mode).raised = NoExc
    /\ r.frame = "data"
    /\ \/ r.body \in {"notjson", "nonobject"}
       \/ r.status \in {"absent", "other"}

\* C8 as claimed: a malformed envelope raises ExaProtocolError
C8_MalformedIsProtocolError ==
    (Handled /\ Malformed(lastRecv.resp, lastRecv.mode)) => lastRecv.raised = ExaProtocolError

\* the payload was read and is a JSON object with status "error"
ErrorResponse(r, mode) ==
    /\ RecvMsg(r, mode).raised = NoExc
    /\ r.frame = "data" /\ r.body = "object" /\ r.status = "error"

\* the exception member is an object holding both sqlCode and text
FullException(e) == e.kind = "object" /\ e.sqlCode # "" /\ e.text # ""

\* C9 as claimed: status "error" raises ExaServerError with the response's
\* sqlCode and text when both are there, and ExaProtocolError otherwise
C9_ErrorResponseRaises ==
    (Handled /\ ErrorResponse(lastRecv.resp, lastRecv.mode)) =>
        /\ lastRecv.raised # NoExc
        /\ FullException(lastRecv.resp.exc) =>
               lastRecv.raised = ExaServerError(lastRecv.resp.exc.sqlCode, lastRecv.resp.exc.text)
        /\ ~FullException(lastRecv.resp.exc) => lastRecv.raised = ExaProtocolError

\* C10 as claimed: under compressed framing a payload that does not inflate
\* raises ExaProtocolError
C10_BadDeflateIsProtocolError ==
    (Handled /\ lastRecv.mode = "compressed" /\ lastRecv.resp.frame = "bad_deflate") =>
        lastRecv.raised = ExaProtocolError

----------------------------------------------------------------------------
\* Properties of the Result

\* releases of handle h that __del__ scheduled and that have not sent yet
Scheduled(h) ==
    {t \in Tasks : op[t] = "release" /\ arg[t] = h /\ pc[t] \in {"scheduled", "lock"}}

\* C11: closeResultSet is sent at most once for a handle; and once its Result
\* has been consumed to the end, closed or finalized, while the status has been
\* CONNECTED ever since execute() and the loop is open, exactly one
\* closeResultSet for it has been sent or, after finalization, waits to be sent
C11_ReleasedExactlyOnce ==
    \A h \in ResultHandles :
        /\ closes[h] <= 1
        /\ (fate[h] # "open" /\ stayed[h] /\ ~loop_closed) =>
               closes[h] + Cardinality(Scheduled(h)) = 1

\* a Result was consumed to the end and later finalized, and one
\* closeResultSet was sent
C11_Witness ==
    \E h \in ResultHandles :
        /\ fate[h] = "consumed" /\ ~alive /\ stayed[h] /\ closes[h] = 1
        /\ lastRet.op = "none" /\ closedOnce

\* the least number of pages of K rows that hold R rows
Ceil(R, K) == (R + K - 1) \div K

\* the generator ran the fetch loop of the Result to line 191
Drained == gen.branch = "handle" /\ fate[nres] = "consumed"

\* C12: when the generator has drained a Result with a handle and every
\* page held K rows, or the rows that were left when these were fewer, it sent
\* Ceil(rowcount, K) fetch requests and yielded rowcount rows; for a row count
\* of 0 no fetch is ever sent
C12_Pagination ==
    /\ Drained => \A K \in conform : fetches = Ceil(rowcount, K) /\ yields = rowcount
    /\ (result_type = "resultSet" /\ rowcount = 0) => fetches = 0

\* MaxRows rows were drained in pages of MaxPage rows, or of what was left
C12_Witness ==
    /\ Drained
    /\ rowcount = MaxRows /\ MaxPage \in conform
    /\ fetches = Ceil(MaxRows, MaxPage) /\ yields = MaxRows

\* fetchone() or fetchall() returned or raised in the last step
Iterated == lastRet.op \in {"fetchone", "fetchall"}

\* C13: fetchone() and fetchall() of a result set whose generator had finished
\* when they were called send nothing and return None and the empty list; and
\* the rows the generator yielded are all different
C13_SinglePass ==
    /\ (Iterated /\ result_type = "resultSet" /\ lastRet.entry.aiterator = "finished") =>
           /\ lastRet.res = NoExc
           /\ lastRet.sent = 0
           /\ lastRet.val = IF lastRet.op = "fetchall" THEN 0 ELSE NoRows
    /\ yields = Cardinality(rowsOut)

\* fetchall() returned the empty list on a result set all of whose rows had
\* been yielded before
C13_Witness ==
    /\ lastRet.op = "fetchall" /\ lastRet.entry.aiterator = "finished"
    /\ result_type = "resultSet"
    /\ rowcount > 0 /\ yields = rowcount
    /\ lastRet.val = 0

\* C14 as claimed: every fetchone() and fetchall() of a Result of kind
\* ROWCOUNT, the first and any later one, raises ValueError and sends nothing
C14_RowCountAlwaysRaises ==
    (Iterated /\ result_type = "rowCount") =>
        /\ lastRet.res = Exc("ValueError")
        /\ lastRet.sent = 0

\* C15: once a call of close() has ended the handle and the inline data are
\* None, and a call of close() after that sends nothing and raises nothing
C15_ResultCloseIdempotent ==
    /\ closedOnce => (result_handle = None /\ data = NoRows)
    /\ (lastRet.op = "res_close" /\ lastRet.entry.closed) =>
           /\ lastRet.sent = 0
           /\ lastRet.res = NoExc

\* close() returned for the second time on a Result with a handle that was
\* closed after some of its rows
C15_Witness ==
    /\ lastRet.op = "res_close" /\ lastRet.entry.closed
    /\ gen.branch = "handle"
    /\ yields > 0 /\ yields < rowcount

C17_ReleaseOnDeadSession ==
    (lastRet.op = "res_close" /\ lastRet.entry.status # "CONNECTED") =>
        /\ lastRet.sent = 0
        /\ lastRet.res = NoExc
        /\ result_handle = None

\* close() returned on a Result that held a handle, after Connection.close()
C17_Witness ==
    /\ lastRet.op = "res_close"
    /\ lastRet.entry.status = "CLOSED" /\ lastRet.entry.handle # None
    /\ result_handle = None /\ lastRet.sent = 0 /\ lastRet.res = NoExc

\* the step finalizes the Result
Finalized == alive /\ ~alive'

\* the step schedules a release
Schedules == \E t \in Tasks : op[t] # "release" /\ op'[t] = "release"

\* the step sends no request
SendsNothing == closes' = closes /\ fetches' = fetches /\ wlog' = wlog

\* C18: the step that finalizes the Result schedules a release exactly when
\* the Result holds a handle, the status is CONNECTED and the loop is not
\* closed, and sends nothing; no other step schedules one; and a scheduled
\* release that runs when the status is not CONNECTED ends without sending
C18_DeferredRelease ==
    [][/\ Finalized =>
              /\ Schedules <=> (result_handle # None /\ status = "CONNECTED" /\ ~loop_closed)
              /\ SendsNothing
       /\ Schedules => Finalized
       /\ \A t \in Tasks :
              (pc[t] = "scheduled" /\ pc'[t] # "scheduled" /\ status # "CONNECTED") =>
                  (SendsNothing /\ pc'[t] = "idle" /\ lastRet'.res = NoExc)]_vars

\* a release scheduled by __del__ ran after the Connection was closed, and
\* ended without sending
C18_Witness ==
    /\ lastRet.op = "release" /\ lastRet.sent = 0 /\ lastRet.res = NoExc
    /\ status = "CLOSED"
    /\ \E h \in ResultHandles : fate[h] = "finalized" /\ closes[h] = 0

\* C19 as claimed: a Result of kind RESULTSET has, in every state, either
\* inline data or a handle, never both and never neither
C19_DataXorHandle ==
    result_type = "resultSet" => ((data # NoRows) # (result_handle # None))

\* the step hands the execute request of task t to the websocket
SendsExecute(t) ==
    /\ cmd'[t] = "execute" /\ pc'[t] = "recv"
    /\ ~(cmd[t] = "execute" /\ pc[t] = "recv")

\* C20 as claimed: an execute request is sent only when the status is
\* CONNECTED and no await is still under way
C20_ExecuteOnlyWhenUsable ==
    [][\A t \in Tasks : SendsExecute(t) =>
            /\ status = "CONNECTED"
            /\ \A u \in Tasks : op[u] # "await"]_vars

\* the rows of the table as the Result transforms them
Expected == [i \in 1..Len(table) |-> Convert(Transform(State), table[i])]

\* the rows before the first one whose converter raises
Convertible ==
    SubSeq(Expected, 1,
           Cardinality({i \in 1..Len(table) :
                            \A j \in 1..i : Expected[j].kind # "ValueError"}))

\* the last step ended a fetchone() or fetchall() in which the generator of
\* a Result that nobody had closed, not finished before, ran to its end (with
\* the RuntimeError of line 223 where the interpreter raises it) or to a row
\* that does not convert
RanOut ==
    /\ Iterated
    /\ lastRet.entry.aiterator # "finished"
    /\ ~lastRet.entry.closed
    /\ aiterator = "finished"
    /\ lastRet.res.kind \in {"none", "RuntimeError", "ValueError"}

\* C21: whether the Result holds the rows of the table inline or fetches
\* them page by page, however the server cuts the pages, the row tuples it
\* has yielded are the first rows of the table, in order and transformed by
\* the converter of its column; and they are all the rows that convert when
\* the generator has run out
C21_InlineAndPagedAgree ==
    result_type = "resultSet" =>
        /\ Len(out) <= Len(Convertible)
        /\ out = SubSeq(Convertible, 1, Len(out))
        /\ RanOut => out = Convertible

\* C21 happens: a Result with a handle has run out after two pages or more,
\* whose rows a converter transformed
C21_Witness ==
    /\ RanOut
    /\ Len(out) >= 2
    /\ out[1].kind # "str"
    /\ out = Convertible
    /\ gen.branch = "handle" /\ fetches >= 2

\* C22: a Result that is not raw takes the date format of the Connection
\* when it is constructed and keeps it, whatever attributes later responses
\* carry; and it yields a value of a DATE column as a date when that format
\* is YYYY-MM-DD, and as the string it came as when it is not
C22_DateByFormatAtConstruction ==
    [][/\ (nres' # nres /\ ~result_converter'.raw) =>
              result_converter'.date_format = date_format'
       /\ nres' = nres => result_converter' = result_converter
       /\ (nres' = nres /\ out' # out /\ columns.type = "DATE" /\ ~result_converter.raw) =>
              out'[Len(out')] =
                  Value(IF result_converter.date_format = "YYYY-MM-DD" THEN "date" ELSE "str",
                        table[Len(out')])]_vars

\* C22 happens: the response to a fetch set the date format to YYYY-DDD, and
\* the row of its page was yielded as a date
C22_Witness ==
    /\ lastRecv.cmd = "fetch" /\ lastRecv.resp.dateFormat = "YYYY-DDD"
    /\ date_format = "YYYY-DDD"
    /\ columns.type = "DATE" /\ ~result_converter.raw
    /\ out # <<>> /\ out[Len(out)].kind = "date"
    /\ rowsOut = {0}

\* C23: when _recv has handled a response whose attributes carry a time zone
\* name, the time zone of the Connection is the zone of the database whose
\* name equals that name ignoring the case of its letters, and None when the
\* database has no such zone
C23_TimezoneCaseInsensitive ==
    (/\ Handled
     /\ AttrsHandled(lastRecv.resp, lastRecv.mode)
     /\ lastRecv.resp.timezone # NoZone) =>
        tz = ResolveZoneUpper(lastRecv.resp.timezone)

\* a string in the dashed form of a UUID: 32 hex digits and 4 dashes
DashedUuidForm(val) == val.form = "hex" /\ val.hex = 32 /\ val.dashes = 4

\* C24: every value a Result that is not raw has yielded from a HASHTYPE
\* column is a UUID when the declared size of the column is 16 bytes (32 hex
\* digits) and the string is in the dashed form of a UUID, and in every other
\* case what decoding the string from hex to bytes gives
C24_UuidOnlyForSize16Dashed ==
    (result_type = "resultSet" /\ columns.type = "HASHTYPE" /\ ~result_converter.raw) =>
        \A i \in 1..Len(out) :
            out[i] = IF columns.size = 32 /\ DashedUuidForm(table[i])
                     THEN Uuid(table[i])
                     ELSE BytesFromhex(table[i])

\* the attributes object of the response _recv handled in the step that
\* ends, if it handled one
AttributesHandled ==
    IF lastRecv'.task # "none" /\ AttrsHandled(lastRecv'.resp, lastRecv'.mode)
    THEN lastRecv'.resp ELSE EmptyObject

\* C26: the date format, the datetime format, the time zone and autocommit
\* of the Connection change only in a step that handles a response whose
\* attributes object has that field, and then take the value of the field;
\* in every other step (login bookkeeping, execute, fetch, close) each of
\* them stays as it was
C26_AttributesOnlyByResponses ==
    [][/\ date_format' = IF AttributesHandled.dateFormat # "absent"
                         THEN AttributesHandled.dateFormat ELSE date_format
       /\ datetime_format' = IF AttributesHandled.datetimeFormat # "absent"
                             THEN AttributesHandled.datetimeFormat ELSE datetime_format
       /\ tz' = IF AttributesHandled.timezone # NoZone
                THEN ResolveZone(AttributesHandled.timezone) ELSE tz
       /\ autocommit' = IF AttributesHandled.autocommit # "absent"
                        THEN AttributesHandled.autocommit = "true" ELSE autocommit]_vars

\* the edges of the status
Edge(a, b) ==
    \/ a = "CLOSED" /\ b = "WS_CONNECTED"
    \/ a = "WS_CONNECTED" /\ b = "CONNECTED"
    \/ a = "CONNECTED" /\ b = "DISCONNECTING"
    \/ b = "CLOSING"
    \/ a = "CLOSING" /\ b = "CLOSED"

\* task t calls _login in the step
LoginAttempted(t) ==
    /\ pc[t] = "idle"
    /\ op'[t] = "login" \/ (lastRet'.task = t /\ lastRet'.op = "login")

\* C25: every assignment to the status follows one of the edges CLOSED to
\* WS_CONNECTED, WS_CONNECTED to CONNECTED, CONNECTED to DISCONNECTING, any
\* status to CLOSING, CLOSING to CLOSED; and _login called with a status
\* other than WS_CONNECTED raises ValueError, sends nothing and leaves the
\* status as it is
C25_StatusEdges ==
    [][/\ \A i \in 1..(Len(trail') - 1) : Edge(trail'[i], trail'[i + 1])
       /\ trail'[1] = status /\ trail'[Len(trail')] = status'
       /\ \A t \in Tasks :
              (LoginAttempted(t) /\ status # "WS_CONNECTED") =>
                  /\ lastRet'.task = t /\ lastRet'.res.kind = "ValueError"
                  /\ pending' = pending /\ wlog' = wlog
                  /\ status' = status]_vars

\* C25 happens: _login called on a Connection that is logged in has raised
\* ValueError
C25_Witness ==
    /\ lastRet.op = "login" /\ lastRet.res.kind = "ValueError"
    /\ status = "CONNECTED"

\* every websocket was sent at most one disconnect request and was closed
\* at most once, and every ClientSession was closed at most once
ClosedAtMostOnce ==
    \A w \in Handles :
        /\ closings.disconnect[w] <= 1
        /\ closings.ws[w] <= 1
        /\ closings.session[w] <= 1

\* C27: however calls of close() interleave, with each other and with
\* requests, the disconnect command is sent at most once on a websocket, the
\* websocket and the ClientSession are each closed at most once, and when the
\* last call has returned the status is CLOSED
C27_ConcurrentCloseOnce ==
    /\ ClosedAtMostOnce
    /\ (Quiet /\ lastRet.op = "close") => status = "CLOSED"

\* C27 happens: one task has sent the disconnect request and waits for its
\* answer inside close(), a second call of close() has meanwhile closed the
\* websocket and is closing the ClientSession
C27_Witness ==
    \E t \in Tasks, u \in Tasks :
        /\ t # u
        /\ op[t] = "close" /\ pc[t] = "recv" /\ cmd[t] = "disconnect"
        /\ op[u] = "close" /\ pc[u] = "sess_close"
        /\ \E w \in Handles :
               closings.disconnect[w] = 1 /\ closings.ws[w] = 1 /\ closings.session[w] = 1

\* no task is inside _request
NoRequest == \A u \in Tasks : pc[u] \notin {"recv", "lock"}

\* task t calls close() in the step
CloseCalled(t) ==
    /\ pc[t] = "idle"
    /\ op'[t] = "close" \/ (lastRet'.task = t /\ lastRet'.op = "close")

\* C28: the lock of _request is held only by a task that waits for its
\* frame, so a request whose send or receive failed or was cancelled has
\* released it; a close() called when no request is under way never waits
\* for the lock, sends its disconnect when the status is CONNECTED, and the
\* status is CLOSED when the last close() has returned
C28_FailedRequestFreesLock ==
    [][/\ req_lock'.locked => \E u \in Tasks : pc'[u] = "recv"
       /\ \A t \in Tasks :
              (CloseCalled(t) /\ NoRequest) =>
                  /\ pc'[t] # "lock"
                  /\ (status = "CONNECTED" /\ ws # None) =>
                         closings'.disconnect[ws] = closings.disconnect[ws] + 1
       /\ (Quiet' /\ lastRet'.op = "close") => status' = "CLOSED"]_vars

\* C28 happens: close() has sent its disconnect and waits for the answer on
\* a websocket that still carries the execute request of a task that was
\* cancelled before its response came
C28_Witness ==
    \E t \in Tasks :
        /\ op[t] = "close" /\ pc[t] = "recv" /\ cmd[t] = "disconnect"
        /\ status = "DISCONNECTING"
        /\ Len(pending[loc[t]]) = 2
        /\ pending[loc[t]][1].cmd = "execute"
        /\ \A u \in Tasks : op[u] # "execute"
        /\ closings.disconnect[loc[t]] = 1

\* the step handled the response to a fetch, a page that reports no rows
ZeroRowPage ==
    /\ lastRecv'.task # "none" /\ lastRecv'.cmd = "fetch"
    /\ lastRecv'.raised = NoExc
    /\ lastRecv'.resp.rtype = "page" /\ lastRecv'.resp.numRows = 0

\* C29: when a page of a fetch reports zero rows before the offset has
\* reached the row count, the iteration ends with ExaProtocolError and no
\* further fetch is sent
C29_ZeroRowPageRaises ==
    [][(ZeroRowPage /\ gen.num_rows < rowcount) =>
           /\ fetches' = fetches
           /\ lastRet'.op \in {"fetchone", "fetchall"}
           /\ lastRet'.res.kind = "ExaProtocolError"]_vars

\* a task is inside _connect, between creating the ClientSession and the
\* end of ws_connect
Connecting == \E t \in Tasks : pc[t] = "connecting"

\* C30: in every state, also with tasks connecting, logging in and closing
\* at the same time, the websocket is set while the status is WS_CONNECTED,
\* CONNECTED or DISCONNECTING, and both the websocket and the ClientSession
\* are None while the status is CLOSED and no connect is under way
C30_HandlesAgreeWithStatus ==
    /\ status \in {"WS_CONNECTED", "CONNECTED", "DISCONNECTING"} => ws # None
    /\ (status = "CLOSED" /\ ~Connecting) => (ws = None /\ session = None)

====
